---------------------------- MODULE Spec2Model ----------------------------
(***************************************************************************)
(* pyConverter: a list of image jobs (MainWindow.lw_files), batch workers  *)
(* (Worker) that reduce the jobs on a background thread, and the UI thread *)
(* that receives their queued signals.                                     *)
(*                                                                         *)
(* Threads.  A Worker is moved to its own QThread; MainWindow and every    *)
(* QThread object live in the UI thread.  Worker.image_converted and       *)
(* Worker.finished are therefore delivered through queued connections: an  *)
(* emit appends an event to the UI thread's event queue (uiq) and the UI   *)
(* thread handles the events one at a time, in order, between the user's   *)
(* own actions.  Worker.runs and QListWidgetItem.processed are plain       *)
(* attributes read by the worker thread and written by the UI thread.      *)
(***************************************************************************)
EXTENDS Integers, Sequences, FiniteSets, TLC

\* Bounds of the model.
MaxItems == 2      \* QListWidgetItems the user ever adds
MaxBatches == 2    \* Workers ever created by MainWindow.convert_images

\* The local files the user can drop on the window.  The program only
\* compares paths for equality, so the files are named in the order of
\* their first drop: the first file ever dropped is PathSeq[1], and so on.
PathSeq == <<"/a/b/c.png", "/a/b/d.png">>
Paths == {PathSeq[j] : j \in 1..Len(PathSeq)}

\* What the source file of an attempt turns out to be (the codec and the
\* file system are outside the program, and a file can change between two
\* attempts):
\*   "ok"         reduce_image saves the file and returns True
\*   "unreadable" Image.open raises in CustomImage.__init__
\*   "unsaveable" resize, os.makedirs or Image.save raises in reduce_image
\*   "lost"       the save goes through but os.path.exists then says False
Kinds == {"ok", "unreadable", "unsaveable", "lost"}

VARIABLES
    items,        \* every QListWidgetItem created: [text, processed, icon]
    lw_files,     \* the rows of the list widget: item ids, in order
    workers,      \* every Worker created, in creation order
    self_worker,  \* MainWindow.worker / .thread / .prg_dialog: 0 when unset
    prg,          \* MainWindow.prg_dialog: [value, maximum]
    msg_box,      \* the modal "No image to convert" box is open
    uiq,          \* queued signal deliveries pending in the UI thread
    widgets,      \* spn_quality, spn_size and le_outputDir of MainWindow
    source,       \* the path handed to CustomImage
    disk,         \* the file system: [dirs, files, writable]
    image,        \* the CustomImage object, NoImage before it is built
    result,       \* what the last call on the CustomImage did
    calls         \* history: the reduce_image calls that are over

batch_vars == <<items, lw_files, workers, self_worker, prg, msg_box, uiq>>
image_vars == <<widgets, source, disk, image, result, calls>>
vars == <<batch_vars, image_vars>>

Range(s) == {s[n] : n \in 1..Len(s)}

RECURSIVE SelectSeq2(_, _)
\* The rows of s that are not in the set gone, order kept.
SelectSeq2(s, gone) ==
    IF s = <<>> THEN <<>>
    ELSE IF Head(s) \in gone THEN SelectSeq2(Tail(s), gone)
         ELSE <<Head(s)>> \o SelectSeq2(Tail(s), gone)


----------------------------------------------------------------------------
\* The UI thread: the user's actions.

\* MainWindow.add_file (one url of a dropEvent; a drop of several files is
\* several calls in a row on the UI thread).
NewItem(path) == [text |-> path, processed |-> FALSE, icon |-> "unchecked"]

\* A plausible slip: the path is not looked up in the list.
add_file_NoCheck(path) ==
    /\ ~msg_box
    /\ items' = Append(items, NewItem(path))
    /\ lw_files' = Append(lw_files, Len(items) + 1)
    /\ UNCHANGED <<workers, self_worker, prg, msg_box, uiq, image_vars>>

add_file(path) ==
    /\ ~msg_box
    /\ IF path \notin {items[i].text : i \in Range(lw_files)}
       THEN /\ items' = Append(items, NewItem(path))
            /\ lw_files' = Append(lw_files, Len(items) + 1)
       ELSE UNCHANGED <<items, lw_files>>
    /\ UNCHANGED <<workers, self_worker, prg, msg_box, uiq, image_vars>>

\* MainWindow.delete_selected_items with the rows of sel selected.
delete_selected_items(sel) ==
    /\ ~msg_box
    /\ lw_files' = SelectSeq2(lw_files, sel)
    /\ UNCHANGED <<items, workers, self_worker, prg, msg_box, uiq, image_vars>>

\* The rows that are not processed yet (images_to_convert of the caller).
Pending(lw_items) == {n \in 1..Len(lw_items) : ~items[lw_items[n]].processed}

\* The text "reduced", a sequence of characters as every path is.
OutputDirDefault == <<"r", "e", "d", "u", "c", "e", "d">>

\* folder = self.le_outputDir.text() or "reduced"
Folder(w) == IF w.le_outputDir = <<>> THEN OutputDirDefault ELSE w.le_outputDir

\* Worker.__init__, with the arguments MainWindow.convert_images reads from
\* the inputs at the click.
NewWorker(lw_items) ==
    [images_to_convert |-> lw_items,
     quality |-> widgets.spn_quality,
     size |-> widgets.spn_size,     \* spn_size.value() / 100.0, in hundredths
     folder |-> Folder(widgets),
     runs |-> TRUE,
     idx |-> 1,            \* position of the for loop
     pc |-> "loop",        \* "loop", "reducing", "done", "crashed"
     quit |-> FALSE,       \* QThread.quit() was called on its thread
     \* History, read by no action:
     pending |-> {lw_items[n] : n \in Pending(lw_items)},
                           \* the jobs not processed when Convert was clicked
     tried |-> <<>>,       \* the attempts so far, <<item, outcome>>
     used |-> {},          \* the arguments of the attempts so far
     emitted |-> <<>>,     \* the signals emitted so far
     cancel_k |-> -1,      \* attempts completed at the first abort
     cancel_busy |-> FALSE] \* an attempt was in progress at the first abort

\* A plausible slip: the return after the message box is missing.
convert_images_NoReturn ==
    /\ ~msg_box
    /\ Len(workers) < MaxBatches
    /\ msg_box' = (Pending(lw_files) = {})
    /\ workers' = Append(workers, NewWorker(lw_files))
    /\ self_worker' = Len(workers) + 1
    /\ prg' = [value |-> 0, maximum |-> Cardinality(Pending(lw_files))]
    /\ UNCHANGED <<items, lw_files, uiq, image_vars>>

\* MainWindow.convert_images: the Convert button.
convert_images ==
    /\ ~msg_box
    /\ IF Pending(lw_files) = {}
       THEN /\ msg_box' = TRUE
            /\ UNCHANGED <<workers, self_worker, prg>>
       ELSE /\ Len(workers) < MaxBatches
            /\ workers' = Append(workers, NewWorker(lw_files))
            /\ self_worker' = Len(workers) + 1
            /\ prg' = [value |-> 0, maximum |-> Cardinality(Pending(lw_files))]
            /\ UNCHANGED msg_box
    /\ UNCHANGED <<items, lw_files, uiq, image_vars>>

\* The user closes the message box; msg_box.exec_() returns.
close_msg_box ==
    /\ msg_box
    /\ msg_box' = FALSE
    /\ UNCHANGED <<items, lw_files, workers, self_worker, prg, uiq, image_vars>>

\* Attempts of worker w that have returned or raised.
Completed(w) == Len(w.tried)

\* MainWindow.abort, the slot of prg_dialog.canceled: Cancel on the progress
\* dialog, which resets itself on the way.
abort ==
    /\ ~msg_box
    /\ self_worker # 0
    /\ prg' = [prg EXCEPT !.value = 0]
    /\ workers' = [workers EXCEPT ![self_worker] =
           [@ EXCEPT !.quit = TRUE,
                     !.runs = FALSE,
                     !.cancel_k = IF @ = -1 THEN Completed(workers[self_worker])
                                  ELSE @,
                     !.cancel_busy =
                         IF workers[self_worker].cancel_k = -1
                         THEN workers[self_worker].pc = "reducing"
                         ELSE @]]
    /\ UNCHANGED <<items, lw_files, self_worker, msg_box, uiq, image_vars>>

----------------------------------------------------------------------------
\* The worker thread of worker n: Worker.convert_images.  The slot runs in
\* the worker's QThread; QThread.quit only ends that thread's event loop,
\* which runs nothing after the slot.

\* A plausible slip: the loop does not look at self.runs.
LoopGuard_NoRuns(w, i) == ~items[i].processed

\* A plausible slip: the loop does not look at the processed flag.
LoopGuard_NoProcessed(w, i) == w.runs

\* The guard of one iteration: self.runs and not image_lw_item.processed.
LoopGuard(w, i) == w.runs /\ ~items[i].processed

\* One iteration's test: enter the body or go to the next item.  The two
\* reads of the test are taken together: a test that reads runs true and
\* then processed true goes to the next item, as does a test made after
\* the cancel.
worker_next(n) ==
    LET w == workers[n] IN
    /\ w.pc = "loop"
    /\ w.idx <= Len(w.images_to_convert)
    /\ workers' = [workers EXCEPT ![n] =
           IF LoopGuard(w, w.images_to_convert[w.idx])
           THEN [w EXCEPT !.pc = "reducing"]
           ELSE [w EXCEPT !.idx = @ + 1]]
    /\ UNCHANGED <<items, lw_files, self_worker, prg, msg_box, uiq, image_vars>>

\* What CustomImage(path, folder).reduce_image(size, quality) does on a
\* file of kind k: "true", "false", or "raise".
Reduce(k) ==
    CASE k = "ok" -> "true"
      [] k = "lost" -> "false"
      [] OTHER -> "raise"

\* A plausible slip: the worker reads the inputs of the window at each item.
Args_Live(w) ==
    [quality |-> widgets.spn_quality, size |-> widgets.spn_size,
     folder |-> Folder(widgets)]

\* The arguments of CustomImage(path, folder).reduce_image(size, quality)
\* in an iteration of worker w.
Args(w) == [quality |-> w.quality, size |-> w.size, folder |-> w.folder]

\* The body of one iteration: the reduction, then image_converted.emit.
\* An exception leaves the slot: the loop is over and finished is not
\* emitted.
worker_reduce(n, k) ==
    LET w == workers[n]
        i == w.images_to_convert[w.idx]
        r == Reduce(k)
    IN
    /\ w.pc = "reducing"
    /\ IF r = "raise"
       THEN /\ workers' = [workers EXCEPT ![n] =
                   [w EXCEPT !.pc = "crashed",
                             !.tried = Append(@, <<i, r>>),
                             !.used = @ \cup {Args(w)}]]
            /\ UNCHANGED uiq
       ELSE /\ workers' = [workers EXCEPT ![n] =
                   [w EXCEPT !.pc = "loop", !.idx = @ + 1,
                             !.tried = Append(@, <<i, r>>),
                             !.used = @ \cup {Args(w)},
                             !.emitted = Append(@, <<"image_converted", i,
                                                     r = "true">>)]]
            /\ uiq' = Append(uiq, [type |-> "image_converted", worker |-> n,
                                   item |-> i, success |-> (r = "true")])
    /\ UNCHANGED <<items, lw_files, self_worker, prg, msg_box, image_vars>>

\* After the loop: finished.emit().
worker_finish(n) ==
    LET w == workers[n] IN
    /\ w.pc = "loop"
    /\ w.idx > Len(w.images_to_convert)
    /\ workers' = [workers EXCEPT ![n] =
           [w EXCEPT !.pc = "done",
                     !.emitted = Append(@, <<"finished", 0, FALSE>>)]]
    /\ uiq' = Append(uiq, [type |-> "finished", worker |-> n,
                           item |-> 0, success |-> FALSE])
    /\ UNCHANGED <<items, lw_files, self_worker, prg, msg_box, image_vars>>

----------------------------------------------------------------------------
\* The UI thread: delivery of the queued signals.

\* QProgressDialog.setValue(value + 1): at the maximum the dialog resets.
SetValue(p) ==
    IF p.value + 1 = p.maximum THEN [p EXCEPT !.value = 0]
    ELSE [p EXCEPT !.value = @ + 1]

\* A plausible slip: the success flag is not tested.
image_converted_Always(lw_item, success) ==
    /\ items' = [items EXCEPT ![lw_item] =
           [@ EXCEPT !.icon = "checked", !.processed = TRUE]]
    /\ prg' = SetValue(prg)
    /\ UNCHANGED <<lw_files, workers, self_worker, msg_box>>

\* MainWindow.image_converted(lw_item, success)
image_converted(lw_item, success) ==
    /\ IF success
       THEN /\ items' = [items EXCEPT ![lw_item] =
                   [@ EXCEPT !.icon = "checked", !.processed = TRUE]]
            /\ prg' = SetValue(prg)
       ELSE UNCHANGED <<items, prg>>
    /\ UNCHANGED <<lw_files, workers, self_worker, msg_box>>

\* QThread.quit, the slot Worker.finished is connected to.
thread_quit(n) ==
    /\ workers' = [workers EXCEPT ![n] = [@ EXCEPT !.quit = TRUE]]
    /\ UNCHANGED <<items, lw_files, self_worker, prg, msg_box>>

\* The UI event loop handles the oldest queued signal.
deliver ==
    /\ uiq # <<>>
    /\ uiq' = Tail(uiq)
    /\ IF Head(uiq).type = "image_converted"
       THEN image_converted(Head(uiq).item, Head(uiq).success)
       ELSE thread_quit(Head(uiq).worker)
    /\ UNCHANGED image_vars

----------------------------------------------------------------------------
UserStep ==
    \/ \E j \in 1..Len(PathSeq) :
          /\ j <= Cardinality({items[i].text : i \in 1..Len(items)}) + 1
          /\ Len(items) < MaxItems
          /\ add_file(PathSeq[j])
    \/ \E sel \in SUBSET Range(lw_files) : delete_selected_items(sel)
    \/ convert_images
    \/ close_msg_box
    \/ abort

WorkerStep ==
    \E n \in 1..Len(workers) :
        \/ worker_next(n)
        \/ \E k \in Kinds : worker_reduce(n, k)
        \/ worker_finish(n)

----------------------------------------------------------------------------
\* CustomImage (image.py), with the file system and the codec it calls.
\* A path is a sequence of one-character strings; os.path is posixpath.

Chars == {"/", "a", "b"}
MaxPathLen == 4      \* longest source path
MaxFolderLen == 2    \* longest text of le_outputDir
MaxW == 45           \* widest source image
MaxH == 2            \* highest source image

Strings(n) == UNION {[1..k -> Chars] : k \in 0..n}

\* The ranges and defaults MainWindow.modify_widgets gives the inputs.
QualityMin == 1
QualityMax == 100
QualityDefault == 75
SizeMin == 1
SizeMax == 100
SizeDefault == 50

DefaultWidgets ==
    [spn_quality |-> QualityDefault, spn_size |-> SizeDefault,
     le_outputDir |-> OutputDirDefault]

NoImage == [path |-> <<>>]

\* p.rfind("/") + 1
LastSlash(p) ==
    LET S == {i \in 1..Len(p) : p[i] = "/"} IN
    IF S = {} THEN 0 ELSE CHOOSE i \in S : \A j \in S : j <= i

RECURSIVE RStripSlash(_)
RStripSlash(p) ==
    IF p # <<>> /\ p[Len(p)] = "/" THEN RStripSlash(SubSeq(p, 1, Len(p) - 1))
    ELSE p

\* os.path.dirname
dirname(p) ==
    LET head == SubSeq(p, 1, LastSlash(p)) IN
    IF head # <<>> /\ (\E i \in 1..Len(head) : head[i] # "/")
    THEN RStripSlash(head) ELSE head

\* os.path.basename
basename(p) == SubSeq(p, LastSlash(p) + 1, Len(p))

\* One round of the loop of os.path.join.
join2(path, b) ==
    IF b # <<>> /\ b[1] = "/" THEN b
    ELSE IF path = <<>> \/ path[Len(path)] = "/" THEN path \o b
    ELSE path \o <<"/">> \o b

\* os.path.join(a, b, c)
join(a, b, c) == join2(join2(a, b), c)

\* A plausible slip: the folder is left out of the join.
ReducedPath_NoFolder(path, folder) ==
    join2(dirname(path), basename(path))

\* CustomImage.__init__: self.reduced_path
ReducedPath(path, folder) == join(dirname(path), folder, basename(path))

\* What a path names for the kernel: absolute or relative to the working
\* directory, and its components (repeated and trailing slashes dropped).
RECURSIVE Split(_)
Split(p) ==
    IF p = <<>> THEN <<>>
    ELSE IF p[1] = "/" THEN Split(Tail(p))
    ELSE LET S == {i \in 1..Len(p) : p[i] = "/"}
             k == IF S = {} THEN Len(p) + 1
                  ELSE CHOOSE i \in S : \A j \in S : i <= j
         IN <<SubSeq(p, 1, k - 1)>> \o Split(SubSeq(p, k, Len(p)))

Canon(p) == [abs |-> p # <<>> /\ p[1] = "/", comps |-> Split(p)]

Front(s) == SubSeq(s, 1, Len(s) - 1)
Parent(c) == [c EXCEPT !.comps = Front(@)]
\* c and the directories above it, the root or working directory included.
UpTo(c) == {[c EXCEPT !.comps = SubSeq(@, 1, k)] : k \in 0..Len(c.comps)}

Roots == {[abs |-> TRUE, comps |-> <<>>], [abs |-> FALSE, comps |-> <<>>]}

\* p names a regular file path: not empty, no trailing slash.
FilePath(p) == p # <<>> /\ p[Len(p)] # "/"

\* os.path.exists
Exists(d, p) ==
    /\ p # <<>>
    /\ \/ Canon(p) \in d.dirs
       \/ Canon(p) \in DOMAIN d.files /\ FilePath(p)

\* Image.open(path) finds an image.
Opens(d, p) == FilePath(p) /\ Canon(p) \in DOMAIN d.files

\* os.makedirs(p) raises: empty name, no permission, or a file in the way.
MakedirsRaises(d, p) ==
    \/ p = <<>>
    \/ ~d.writable
    \/ UpTo(Canon(p)) \cap DOMAIN d.files # {}

Makedirs(d, p) == [d EXCEPT !.dirs = @ \cup UpTo(Canon(p))]

\* Image.save cannot open p for writing.
SaveRaises(d, p) ==
    \/ ~FilePath(p)
    \/ ~d.writable
    \/ Canon(p) \in d.dirs
    \/ Parent(Canon(p)) \notin d.dirs

\* The file at p holds an image of the given size.
Write(d, p, size) ==
    [d EXCEPT !.files = [c \in DOMAIN @ \cup {Canon(p)} |->
                            IF c = Canon(p) THEN size ELSE @[c]]]

Remove(d, p) ==
    [d EXCEPT !.files = [c \in DOMAIN @ \ {Canon(p)} |-> @[c]]]

\* round(width * size) for size = pct / 100.0, in IEEE double arithmetic.
\* The product is within 2^-40 of width * pct / 100, so only a product
\* that is exactly halfway between two integers needs the bits.
RECURSIVE Pow2(_)
Pow2(e) == IF e = 0 THEN 1 ELSE 2 * Pow2(e - 1)

RECURSIVE Pow2Mod100(_)
Pow2Mod100(e) == IF e = 0 THEN 1 ELSE (2 * Pow2Mod100(e - 1)) % 100

\* pct / 100.0 lies in [2^-j, 2^(1-j)): its 53-bit mantissa is the integer
\* nearest to pct * 2^(52+j) / 100.
BinExp(pct) == CHOOSE j \in 0..7 :
    /\ pct * Pow2(j) >= 100
    /\ \A i \in 0..(j - 1) : pct * Pow2(i) < 100

\* 100 * mantissa - pct * 2^(52+j): the error of pct / 100.0, in units of
\* 2^-(52+j) / 100.
FloatErr(pct) ==
    LET r == (pct * Pow2Mod100(52 + BinExp(pct))) % 100 IN
    IF r < 50 THEN 0 - r ELSE 100 - r

ILog2(t) == CHOOSE e \in 0..30 : Pow2(e) <= t /\ t < 2 * Pow2(e)

\* For width * pct = 100 t + 50: on which side of t + 1/2 the double
\* product width * (pct / 100.0) falls: -1 below, 0 on it, 1 above.  The
\* multiplication rounds the exact product t + 1/2 + eps to the nearest
\* double; the doubles next to t + 1/2 are 2^(e-52) away (2^-54 below 1/2).
TieSide(width, pct) ==
    LET t == (width * pct) \div 100
        n == FloatErr(pct)
        j == BinExp(pct)
        m == IF n < 0 THEN 0 - n ELSE n
    IN
    IF n = 0 THEN 0
    ELSE IF t = 0
    THEN IF n > 0 THEN (IF 4 * width * m > 100 * Pow2(j) THEN 1 ELSE 0)
         ELSE (IF 8 * width * m > 100 * Pow2(j) THEN -1 ELSE 0)
    ELSE IF 2 * width * m > 100 * Pow2(ILog2(t) + j)
         THEN (IF n > 0 THEN 1 ELSE -1)
         ELSE 0

\* A plausible slip: int() in place of round().
PyRound_Trunc(width, pct) == (width * pct) \div 100

\* round(width * size): Python rounds a double to the nearest integer, and
\* a double exactly halfway to the even one.
PyRound(width, pct) ==
    LET q == (width * pct) \div 100
        r == (width * pct) % 100
    IN
    IF r < 50 THEN q
    ELSE IF r > 50 THEN q + 1
    ELSE CASE TieSide(width, pct) > 0 -> q + 1
           [] TieSide(width, pct) < 0 -> q
           [] OTHER -> IF q % 2 = 0 THEN q ELSE q + 1

\* CustomImage(path=source, folder=folder)
new_image ==
    /\ image = NoImage
    /\ result = "none"
    /\ IF Opens(disk, source)
       THEN /\ image' = [image |-> disk.files[Canon(source)],
                         width |-> disk.files[Canon(source)][1],
                         height |-> disk.files[Canon(source)][2],
                         path |-> source,
                         reduced_path |-> ReducedPath(source, Folder(widgets)),
                         made_dirs |-> FALSE]  \* history: os.makedirs ran
            /\ UNCHANGED result
       ELSE /\ result' = "raise"
            /\ UNCHANGED image
    /\ UNCHANGED <<widgets, source, disk, calls, batch_vars>>

\* The record of a reduce_image call that is over: what it did, the output
\* path, the size of the image the file system holds there afterwards
\* (<<>> when there is no file), and whether the encoder accepted the image
\* and nothing removed the file behind the program's back.
Call(res, path, d, calm) ==
    [result |-> res,
     path |-> path,
     file |-> IF Canon(path) \in DOMAIN d.files THEN d.files[Canon(path)]
              ELSE <<>>,
     calm |-> calm]

\* image.reduce_image(size=spn_size / 100.0, quality=spn_quality).
\* encodes: the JPEG encoder accepts the image; partial: a failed save
\* leaves a file behind; gone: the saved file is removed before the final
\* os.path.exists.
reduce_image(encodes, partial, gone) ==
    LET new_width == PyRound(image.width, widgets.spn_size)
        new_height == PyRound(image.height, widgets.spn_size)
        parent_dir == dirname(image.reduced_path)
        resized == [image EXCEPT !.image = <<new_width, new_height>>,
                                 !.made_dirs = ~Exists(disk, parent_dir)]
        made == IF Exists(disk, parent_dir) THEN disk
                ELSE Makedirs(disk, parent_dir)
        saved == Write(made, image.reduced_path, <<new_width, new_height>>)
        final == IF gone THEN Remove(saved, image.reduced_path) ELSE saved
    IN
    /\ image # NoImage
    /\ result = "none"
    /\ IF new_width < 1 \/ new_height < 1
       THEN \* Image.resize raises ValueError
            /\ result' = "raise"
            /\ UNCHANGED <<image, disk>>
       ELSE IF ~Exists(disk, parent_dir) /\ MakedirsRaises(disk, parent_dir)
       THEN /\ result' = "raise"
            /\ image' = resized
            /\ UNCHANGED disk
       ELSE IF SaveRaises(made, image.reduced_path)
       THEN /\ result' = "raise"
            /\ image' = resized
            /\ disk' = made
       ELSE IF ~encodes
       THEN /\ result' = "raise"
            /\ image' = resized
            /\ disk' = IF partial THEN Write(made, image.reduced_path, <<0, 0>>)
                       ELSE made
       ELSE /\ result' = IF Exists(final, image.reduced_path) THEN "true"
                         ELSE "false"
            /\ image' = resized
            /\ disk' = final
    /\ calls' = Append(calls, Call(result', image.reduced_path, disk',
                                  encodes /\ ~gone))
    /\ UNCHANGED <<widgets, source, batch_vars>>

ImageNext ==
    \/ new_image
    \/ \E encodes, partial, gone \in BOOLEAN :
           reduce_image(encodes, partial, gone)

\* No CustomImage is under study.
ImageIdle ==
    /\ widgets = DefaultWidgets
    /\ source = <<>>
    /\ disk = [dirs |-> Roots, files |-> <<>>, writable |-> TRUE]
    /\ image = NoImage
    /\ result = "none"
    /\ calls = <<>>

BatchIdle ==
    /\ items = <<>>
    /\ lw_files = <<>>
    /\ workers = <<>>
    /\ self_worker = 0
    /\ prg = [value |-> 0, maximum |-> 0]
    /\ msg_box = FALSE
    /\ uiq = <<>>

\* The disk around a source file of the given size: its directories exist.
SourceDisk(src, size) ==
    [dirs |-> Roots \cup UpTo(Parent(Canon(src))),
     files |-> IF FilePath(src) /\ Canon(src).comps # <<>>
               THEN [c \in {Canon(src)} |-> size] ELSE <<>>,
     writable |-> TRUE]

\* The directories a run may find in place: the source's directory
\* extended by the folder, and the folder taken alone.
OutDirs(src, folder) ==
    UpTo([abs |-> Canon(src).abs,
          comps |-> Front(Split(src)) \o Split(folder)])
    \cup UpTo([abs |-> TRUE, comps |-> Split(folder)])

Disks(src, folder, size) ==
    LET d == SourceDisk(src, size) IN
    {d,
     [d EXCEPT !.writable = FALSE],
     [d EXCEPT !.files = <<>>],
     [d EXCEPT !.dirs = @ \cup (OutDirs(src, folder) \ DOMAIN d.files)]}

\* The paths a drop hands to add_file are absolute (QUrl.toLocalFile).
SourcePaths == {p \in Strings(MaxPathLen) : p # <<>> /\ p[1] = "/"}

\* Every source path and folder text, for one size of image.
PathInit ==
    /\ BatchIdle
    /\ widgets \in {[DefaultWidgets EXCEPT !.le_outputDir = f] :
                       f \in Strings(MaxFolderLen)}
    /\ source \in SourcePaths
    /\ disk \in Disks(source, Folder(widgets), <<MaxW, MaxH>>)
    /\ image = NoImage
    /\ result = "none"
    /\ calls = <<>>

PathSpec == PathInit /\ [][ImageNext]_vars

SizeSource == <<"/", "a", "/", "b">>

\* Every size and quality the spin boxes allow, for every image size.
SizeInit ==
    /\ BatchIdle
    /\ widgets \in {[DefaultWidgets EXCEPT !.spn_size = s, !.spn_quality = q] :
                       s \in SizeMin..SizeMax,
                       q \in {QualityMin, QualityDefault, QualityMax}}
    /\ source = SizeSource
    /\ disk \in {SourceDisk(source, <<w, h>>) : w \in 1..MaxW, h \in 1..MaxH}
    /\ image = NoImage
    /\ result = "none"
    /\ calls = <<>>

SizeSpec == SizeInit /\ [][ImageNext]_vars

\* The same source reduced again with the same inputs: Worker.convert_images
\* builds a CustomImage per attempt, so a second batch over an unprocessed
\* job builds a second object on the same path and folder.
MaxCalls == 2        \* reductions of the one source

next_object ==
    /\ image # NoImage
    /\ result # "none"
    /\ Len(calls) < MaxCalls
    /\ image' = NoImage
    /\ result' = "none"
    /\ UNCHANGED <<widgets, source, disk, calls, batch_vars>>

\* reduce_image called again on the CustomImage that is already built.
next_call ==
    /\ image # NoImage
    /\ result # "none"
    /\ Len(calls) < MaxCalls
    /\ result' = "none"
    /\ UNCHANGED <<widgets, source, disk, image, calls, batch_vars>>

\* The size factors under study: the ends of the range and the default.
AgainSizes == {SizeMin, SizeDefault, SizeMax}

AgainInit ==
    /\ BatchIdle
    /\ widgets \in {[DefaultWidgets EXCEPT !.le_outputDir = f, !.spn_size = s] :
                       f \in Strings(MaxFolderLen), s \in AgainSizes}
    /\ source \in SourcePaths
    /\ disk \in Disks(source, Folder(widgets), <<MaxW, MaxH>>)
    /\ image = NoImage
    /\ result = "none"
    /\ calls = <<>>

AgainNext == new_image
             \/ (\E encodes, partial, gone \in BOOLEAN :
                    reduce_image(encodes, partial, gone))
             \/ next_object
             \/ next_call

AgainSpec == AgainInit /\ [][AgainNext]_vars

----------------------------------------------------------------------------
\* The application: the window after construction, the user, the workers
\* and the UI event loop.
Init == BatchIdle /\ ImageIdle

Next == UserStep \/ WorkerStep \/ deliver

Spec == Init /\ [][Next]_vars

----------------------------------------------------------------------------
\* The application with a user who adds, removes and adds again, up to
\* MaxListItems jobs, and starts one batch.
MaxListItems == 4

ListUser ==
    \/ \E j \in 1..Len(PathSeq) :
          /\ j <= Cardinality({items[i].text : i \in 1..Len(items)}) + 1
          /\ Len(items) < MaxListItems
          /\ add_file(PathSeq[j])
    \/ \E sel \in SUBSET Range(lw_files) : delete_selected_items(sel)
    \/ (workers = <<>> /\ convert_images)
    \/ close_msg_box
    \/ abort

ListNext == ListUser \/ WorkerStep \/ deliver

ListSpec == Init /\ [][ListNext]_vars

----------------------------------------------------------------------------
\* The application with a user who also edits the three inputs, and
\* starts one batch.
\* The values the user gives the inputs: an end of each range beside the
\* default, and for the folder an empty text and a name of one letter.
ConfigQualities == {QualityDefault, QualityMin}
ConfigSizes == {SizeDefault, SizeMax}
ConfigFolders == {OutputDirDefault, <<>>, <<"a">>}

\* The user sets spn_quality, spn_size or le_outputDir.
edit_quality(q) ==
    /\ ~msg_box
    /\ widgets' = [widgets EXCEPT !.spn_quality = q]
    /\ UNCHANGED <<batch_vars, source, disk, image, result, calls>>

edit_size(sz) ==
    /\ ~msg_box
    /\ widgets' = [widgets EXCEPT !.spn_size = sz]
    /\ UNCHANGED <<batch_vars, source, disk, image, result, calls>>

edit_folder(f) ==
    /\ ~msg_box
    /\ widgets' = [widgets EXCEPT !.le_outputDir = f]
    /\ UNCHANGED <<batch_vars, source, disk, image, result, calls>>

ConfigUser ==
    \/ (UserStep /\ Len(workers') <= 1)
    \/ \E q \in ConfigQualities : edit_quality(q)
    \/ \E sz \in ConfigSizes : edit_size(sz)
    \/ \E f \in ConfigFolders : edit_folder(f)

ConfigNext == ConfigUser \/ WorkerStep \/ deliver

ConfigSpec == Init /\ [][ConfigNext]_vars

----------------------------------------------------------------------------
\* Vocabulary of the properties.

WorkerIds == 1..Len(workers)

\* The worker's slot has returned or was left by an exception: no step of
\* the worker is enabled any more.
Stopped(n) == workers[n].pc \in {"done", "crashed"}

\* A batch worker in the Running state: started and its loop still going.
Running(n) == workers[n].pc \in {"loop", "reducing"}

\* The batch has ended: finished was emitted and the UI thread has handled
\* every signal of the batch.
Ended(n) ==
    /\ workers[n].pc = "done"
    /\ \A e \in Range(uiq) : e.worker # n

Outcomes(w) == {t[2] : t \in Range(w.tried)}
Attempted(w) == {t[1] : t \in Range(w.tried)}
Succeeded(w) == {t[1] : t \in {u \in Range(w.tried) : u[2] = "true"}}
ProcessedOf(w) == {i \in w.pending : items[i].processed}

ItemEvents(w) == SelectSeq(w.emitted, LAMBDA e : e[1] = "image_converted")
FinishedEvents(w) == SelectSeq(w.emitted, LAMBDA e : e[1] = "finished")

----------------------------------------------------------------------------
\* C1 as stated: in a batch whose reductions all succeed, run alone, if the
\* user cancels when k items have completed, then at the end of the batch
\* exactly k jobs are marked processed and no reduction was made after the
\* k-th.
C1_Original ==
    \A n \in WorkerIds :
        LET w == workers[n] IN
        (/\ w.cancel_k # -1
         /\ Ended(n)
         /\ Len(workers) = 1
         /\ Outcomes(w) \subseteq {"true"})
        => /\ Len(w.tried) = w.cancel_k
           /\ Cardinality(ProcessedOf(w)) = w.cancel_k

\* C1 amended: if the user cancels when k attempts of the batch have
\* completed, the worker makes no attempt after the cancel except the one
\* that was in progress at the cancel, which it completes: it has made k
\* attempts, or k+1 once an attempt that was in progress at the cancel is
\* over; when the batch has ended every job it reduced successfully is
\* marked processed, and in a batch run alone no other job of the batch is.
C1_Amended ==
    \A n \in WorkerIds :
        LET w == workers[n] IN
        w.cancel_k # -1 =>
            /\ Len(w.tried) = w.cancel_k +
                   (IF w.cancel_busy /\ w.pc # "reducing" THEN 1 ELSE 0)
            /\ Ended(n) => Succeeded(w) \subseteq ProcessedOf(w)
            /\ (Ended(n) /\ Len(workers) = 1) => ProcessedOf(w) = Succeeded(w)

\* A batch of two pending jobs cancelled during its first reduction has
\* ended with that one reduction made and the second job untouched.
C1_Witness ==
    \E n \in WorkerIds :
        LET w == workers[n] IN
        /\ w.cancel_k = 0 /\ w.cancel_busy
        /\ Ended(n)
        /\ Cardinality(w.pending) = 2
        /\ Len(w.tried) = 1
        /\ ProcessedOf(w) = Succeeded(w)
        /\ Succeeded(w) # {}

\* C2: a failing item is not fatal to the batch.  When a worker in whose
\* batch a reduction raised has stopped, it has emitted finished, it has
\* attempted every other job of the batch that is still unprocessed (unless
\* it was cancelled), and the failing job is not marked processed.
C2_Claim ==
    \A n \in WorkerIds :
        LET w == workers[n] IN
        ("raise" \in Outcomes(w) /\ Stopped(n)) =>
            /\ w.pc = "done"
            /\ \A i \in w.pending :
                   (w.runs /\ ~items[i].processed) => i \in Attempted(w)
            /\ \A t \in Range(w.tried) :
                   (t[2] = "raise" /\ items[t[1]].processed) =>
                       \E m \in WorkerIds : t[1] \in Succeeded(workers[m])

\* C3: a batch run emits finished exactly once, nothing after it, and does
\* not stop without it.
C3_Claim ==
    \A n \in WorkerIds :
        LET w == workers[n] IN
        /\ Len(FinishedEvents(w)) <= 1
        /\ Len(FinishedEvents(w)) = 1 => w.emitted[Len(w.emitted)][1] = "finished"
        /\ Stopped(n) => Len(FinishedEvents(w)) = 1

\* C4: a click on Convert while no job of the list is pending opens the
\* "No image to convert" box and changes nothing else: no worker, no
\* reduction, no processed flag.
C4_NothingToDo ==
    [][(convert_images /\ Pending(lw_files) = {}) =>
          /\ msg_box'
          /\ UNCHANGED <<items, lw_files, workers, self_worker, prg, uiq>>]_vars

\* The box is open over a list whose jobs are all processed.
C4_Witness ==
    /\ msg_box
    /\ lw_files # <<>>
    /\ Pending(lw_files) = {}
    /\ workers # <<>>

\* C5: once runs is false the worker starts no reduction, and a reduction
\* in progress then is completed and its per-item signal emitted.
C5_Claim ==
    [][\A n \in WorkerIds :
          LET w == workers[n]
              v == workers'[n]
          IN
          ~w.runs =>
              /\ w.pc # "reducing" => v.pc # "reducing"
              /\ (w.pc = "reducing" /\ v.pc # "reducing") =>
                     /\ Len(v.tried) = Len(w.tried) + 1
                     /\ Len(ItemEvents(v)) = Len(ItemEvents(w)) + 1
                     /\ uiq' = Append(uiq, [type |-> "image_converted",
                            worker |-> n,
                            item |-> w.images_to_convert[w.idx],
                            success |-> v.tried[Len(v.tried)][2] = "true"])]_vars

\* C6: a job is processed only if a reduction of it returned success; a new
\* job is not processed, the delivery of a failure leaves the flags as they
\* are, and a processed job stays processed.
C6_Processed ==
    /\ [](\A i \in 1..Len(items) :
             items[i].processed =>
                 \E n \in WorkerIds : i \in Succeeded(workers[n]))
    /\ [][/\ \A i \in 1..Len(items') :
                  IF i > Len(items) THEN ~items'[i].processed
                  ELSE items[i].processed => items'[i].processed
          /\ (/\ uiq # <<>>
              /\ uiq' = Tail(uiq)
              /\ Head(uiq).type = "image_converted"
              /\ ~Head(uiq).success) => items' = items]_vars

\* One job is processed, and another whose reduction returned False has had
\* its signal delivered and is not.
C6_Witness ==
    \E n \in WorkerIds :
        /\ Ended(n)
        /\ \E i, j \in Attempted(workers[n]) :
               /\ items[i].processed
               /\ ~items[j].processed
               /\ \E t \in Range(workers[n].tried) :
                      t[1] = j /\ t[2] = "false"

\* C7: every attempt is followed, before the next one starts, by exactly one
\* per-item signal for its job, with success false when the source could not
\* be read or saved, and no exception ends the loop.
C7_Claim ==
    \A n \in WorkerIds :
        LET w == workers[n] IN
        /\ Len(ItemEvents(w)) = Len(w.tried)
        /\ \A k \in 1..Len(w.tried) :
               ItemEvents(w)[k] =
                   <<"image_converted", w.tried[k][1], w.tried[k][2] = "true">>
        /\ w.pc # "crashed"

\* C8: at most one batch worker is Running.
C8_Claim == Cardinality({n \in WorkerIds : Running(n)}) <= 1

----------------------------------------------------------------------------
\* C9 as stated: for every source path and folder name the output path is
\* the source's directory, then the folder, then the source's file name,
\* and after a reduction that returned true the output directory exists.
Last(s) == s[Len(s)]

UnderSourceDir(src, folder) ==
    [abs |-> Canon(src).abs,
     comps |-> Front(Split(src)) \o Split(folder) \o <<Last(Split(src))>>]

C9_Original ==
    image # NoImage =>
        /\ Canon(image.reduced_path) = UnderSourceDir(source, Folder(widgets))
        /\ result = "true" =>
               Parent(UnderSourceDir(source, Folder(widgets))) \in disk.dirs

\* C9 amended: that is the output path for every folder name that does not
\* begin with "/" (an empty text standing for "reduced"); a folder name
\* that begins with "/" replaces the source's directory, and the output
\* path is the folder, then the source's file name.  The path depends on
\* nothing else, and after a reduction that returned true the output
\* directory and the output file exist.
C9_Amended ==
    image # NoImage =>
        /\ Canon(image.reduced_path) =
               IF Folder(widgets)[1] = "/"
               THEN [abs |-> TRUE,
                     comps |-> Split(Folder(widgets)) \o <<Last(Split(source))>>]
               ELSE UnderSourceDir(source, Folder(widgets))
        /\ result = "true" =>
               /\ Parent(Canon(image.reduced_path)) \in disk.dirs
               /\ Canon(image.reduced_path) \in DOMAIN disk.files

\* A reduction of /x/y into a folder beside it returned true after it had
\* to create the folder.
C9_Witness ==
    /\ image # NoImage
    /\ result = "true"
    /\ image.made_dirs
    /\ Canon(source).abs
    /\ Len(Split(source)) = 2
    /\ Folder(widgets)[1] # "/"
    /\ Len(Canon(image.reduced_path).comps) = 3

\* C10 as stated: the reduced image is round(W * factor) wide and
\* round(H * factor) high, for the exact product and whatever the quality.
RoundExact(width, pct) ==
    LET q == (width * pct) \div 100
        r == (width * pct) % 100
    IN
    IF r < 50 THEN q
    ELSE IF r > 50 THEN q + 1
    ELSE IF q % 2 = 0 THEN q ELSE q + 1

C10_Original ==
    (image # NoImage /\ result # "none") =>
        image.image = <<RoundExact(image.width, widgets.spn_size),
                        RoundExact(image.height, widgets.spn_size)>>

\* C10 amended: each new dimension is the integer nearest to W * pct / 100;
\* when that is exactly halfway between two integers it is the even one for
\* the factors a double holds exactly (0.25, 0.5, 0.75, 1) and one of the
\* two otherwise, as the double product decides.  When a new dimension is 0
\* the resize raises and no image is made.  The quality plays no part.
Abs(x) == IF x < 0 THEN 0 - x ELSE x

Nearest(x, width, pct) ==
    \/ Abs(100 * x - width * pct) < 50
    \/ /\ Abs(100 * x - width * pct) = 50
       /\ pct \in {25, 50, 75, 100} => x % 2 = 0

C10_Amended ==
    (image # NoImage /\ result # "none") =>
        \/ /\ image.image[1] >= 1 /\ image.image[2] >= 1
           /\ Nearest(image.image[1], image.width, widgets.spn_size)
           /\ Nearest(image.image[2], image.height, widgets.spn_size)
           /\ result = "true" =>
                  disk.files[Canon(image.reduced_path)] = image.image
        \/ /\ result = "raise"
           /\ image.image = <<image.width, image.height>>
           /\ \/ Nearest(0, image.width, widgets.spn_size)
              \/ Nearest(0, image.height, widgets.spn_size)
           /\ Canon(image.reduced_path) \notin DOMAIN disk.files

\* An image 45 wide reduced to 70 %: the double product is below 31.5 and
\* the file saved is 31 wide.
C10_Witness ==
    /\ image # NoImage
    /\ result = "true"
    /\ image.width = 45
    /\ widgets.spn_size = 70
    /\ disk.files[Canon(image.reduced_path)][1] = 31

----------------------------------------------------------------------------
\* C11: reduction is idempotent.  When a reduction of a source has returned
\* true and the same source is reduced again with the same size, quality
\* and folder (the encoder accepting the image and nothing else touching
\* the files), the second reduction returns true as well and leaves, at the
\* same output path, a file of the same dimensions.
C11_Claim ==
    \A k \in 1..(Len(calls) - 1) :
        (calls[k].result = "true" /\ calls[k + 1].calm) =>
            /\ calls[k + 1].result = "true"
            /\ calls[k + 1].path = calls[k].path
            /\ calls[k + 1].file = calls[k].file
            /\ calls[k + 1].file # <<>>

----------------------------------------------------------------------------
\* C12: Worker.runs is the only state one thread writes and the other
\* reads.  While a batch is Running no step changes the state (processed
\* flag, icon, text) of a list item its worker reads, and a step of a worker
\* (one that moves its loop) changes nothing of the window's state.
C12_Claim ==
    [][/\ \A n \in WorkerIds :
             Running(n) =>
                 \A i \in Range(workers[n].images_to_convert) :
                     items'[i] = items[i]
       /\ (\E n \in WorkerIds :
               \/ workers'[n].idx # workers[n].idx
               \/ workers'[n].pc # workers[n].pc)
          => UNCHANGED <<items, lw_files, self_worker, prg, msg_box>>]_vars

----------------------------------------------------------------------------
\* C13: no job is reduced successfully more than once.  A worker that
\* passes the test of its loop and starts a reduction starts it on a job
\* of which no reduction, by any worker, has returned success.
C13_Claim ==
    [][\A n \in WorkerIds :
          (workers[n].pc # "reducing" /\ workers'[n].pc = "reducing") =>
              \A m \in WorkerIds :
                  workers[n].images_to_convert[workers[n].idx]
                      \notin Succeeded(workers[m])]_vars

----------------------------------------------------------------------------
\* C14: within one batch run the worker visits the jobs in the order of the
\* list captured at Convert, skips a job that is processed when it reaches
\* it, and attempts a job at most once.  The captured list is the list
\* widget's rows at the click and never changes afterwards; the attempts of
\* the run are made at strictly increasing positions of it, none beyond
\* the position of the loop; the loop only moves forward, one position at
\* a time; and a worker that reaches a processed job moves to the next one
\* without an attempt.
Pos(w, i) ==
    CHOOSE p \in 1..Len(w.images_to_convert) : w.images_to_convert[p] = i

C14_Order ==
    /\ [](\A n \in WorkerIds :
             LET w == workers[n] IN
             /\ \A p, q \in 1..Len(w.images_to_convert) :
                    w.images_to_convert[p] = w.images_to_convert[q] => p = q
             /\ \A k \in 1..Len(w.tried) :
                    /\ w.tried[k][1] \in Range(w.images_to_convert)
                    /\ k < Len(w.tried) =>
                           Pos(w, w.tried[k][1]) < Pos(w, w.tried[k + 1][1])
                    /\ k = Len(w.tried) =>
                           /\ Pos(w, w.tried[k][1]) <= w.idx
                           /\ Pos(w, w.tried[k][1]) = w.idx =>
                                  w.pc = "crashed")
    /\ [][/\ \A n \in 1..Len(workers') :
                  IF n \in WorkerIds
                  THEN /\ workers'[n].images_to_convert =
                              workers[n].images_to_convert
                       /\ workers'[n].idx \in {workers[n].idx,
                                               workers[n].idx + 1}
                  ELSE workers'[n].images_to_convert = lw_files
          /\ \A n \in WorkerIds :
                  LET w == workers[n]
                      v == workers'[n]
                  IN
                  (/\ w.pc = "loop"
                   /\ w.idx <= Len(w.images_to_convert)
                   /\ <<v.idx, v.pc>> # <<w.idx, w.pc>>
                   /\ items[w.images_to_convert[w.idx]].processed)
                  => /\ v.pc = "loop"
                     /\ v.idx = w.idx + 1
                     /\ v.tried = w.tried]_vars

\* A batch over two pending rows has run to its end with an attempt that
\* returned False and then one that returned True; a later batch over the
\* same two rows has run to its end too: it attempted the first job again
\* and skipped the second, which was processed; and the list widget has
\* changed since the clicks.
C14_Witness ==
    \E n, m \in WorkerIds :
        LET w == workers[n]
            v == workers[m]
        IN
        /\ n < m
        /\ w.pc = "done" /\ w.runs
        /\ v.pc = "done" /\ v.runs
        /\ Len(w.tried) = 2
        /\ w.tried[1][2] = "false"
        /\ w.tried[2][2] = "true"
        /\ v.images_to_convert = w.images_to_convert
        /\ w.tried[2][1] \notin v.pending
        /\ Len(v.tried) = 1
        /\ v.tried[1][1] = w.tried[1][1]
        /\ lw_files # v.images_to_convert

----------------------------------------------------------------------------
\* C15: the quality, size and folder of a batch are read once, at the click
\* on Convert, and are fixed for the run.  A new worker holds the values
\* the inputs have at the click, no later step changes what a worker
\* holds, and every attempt of the worker was made with those values,
\* whatever the inputs have become.
Held(w) == [quality |-> w.quality, size |-> w.size, folder |-> w.folder]

C15_Fixed ==
    /\ [](\A n \in WorkerIds : workers[n].used \subseteq {Held(workers[n])})
    /\ [][\A n \in 1..Len(workers') :
              IF n \in WorkerIds
              THEN Held(workers'[n]) = Held(workers[n])
              ELSE Held(workers'[n]) =
                       [quality |-> widgets.spn_quality,
                        size |-> widgets.spn_size,
                        folder |-> IF widgets.le_outputDir = <<>>
                                   THEN OutputDirDefault
                                   ELSE widgets.le_outputDir]]_vars

\* A batch started with a folder, a quality and a size of the user's is
\* Running: it has made one attempt and is reducing its second job, and the
\* user has changed the three inputs since the click.
C15_Witness ==
    \E n \in WorkerIds :
        LET w == workers[n] IN
        /\ w.pc = "reducing"
        /\ Len(w.tried) = 1
        /\ w.used # {}
        /\ w.folder # OutputDirDefault
        /\ w.quality # widgets.spn_quality
        /\ w.size # widgets.spn_size
        /\ w.folder # Folder(widgets)

----------------------------------------------------------------------------
\* C16: the list never holds two jobs with the same source path.  No two
\* rows of the list widget are the same job or have the same text; a step
\* that changes the rows either removes rows and touches no job, or appends
\* one new job, not processed, whose path no row had, and touches no other
\* job; and the path of a job never changes.  A path that is in the list is
\* therefore added again only after its row was removed.
RowTexts == {items[lw_files[p]].text : p \in 1..Len(lw_files)}

C16_NoDuplicate ==
    /\ [](\A p, q \in 1..Len(lw_files) :
             (\/ lw_files[p] = lw_files[q]
              \/ items[lw_files[p]].text = items[lw_files[q]].text) => p = q)
    /\ [][/\ \A i \in 1..Len(items) : items'[i].text = items[i].text
          /\ lw_files' # lw_files =>
                \/ /\ items' = items
                   /\ \E sel \in SUBSET Range(lw_files) :
                          lw_files' = SelectSeq2(lw_files, sel)
                \/ /\ lw_files' = Append(lw_files, Len(items) + 1)
                   /\ Len(items') = Len(items) + 1
                   /\ \A i \in 1..Len(items) : items'[i] = items[i]
                   /\ ~items'[Len(items')].processed
                   /\ items'[Len(items')].text \notin RowTexts]_vars

\* A path was added, reduced, removed and added again: its first job is
\* processed and out of the list, its second job is a row and not
\* processed, beside the row of another path.
C16_Witness ==
    \E i, j \in 1..Len(items) :
        /\ i < j
        /\ items[i].text = items[j].text
        /\ items[i].processed
        /\ ~items[j].processed
        /\ i \notin Range(lw_files)
        /\ j \in Range(lw_files)
        /\ Len(lw_files) = 2

=============================================================================
